---------------------------- MODULE Spec2Model ----------------------------
(***************************************************************************)
(* A model of the test_common_framework utility package and of the sample  *)
(* Lambda handler built on it.                                             *)
(*                                                                         *)
(* A Python value is a record whose field t names its type and whose other *)
(* field holds the payload.  A str is a sequence of one-character strings, *)
(* a dict is the sequence of its (key, value) pairs in insertion order, a  *)
(* list is the sequence of its items.  A call that can raise yields an     *)
(* outcome record [ok, val, exc, msg].                                     *)
(***************************************************************************)
EXTENDS Integers, Sequences, FiniteSets, TLC

(***************************************************************************)
(* Bounds of the model.                                                    *)
(***************************************************************************)
MaxAttempts == 3
MaxCalls == 2
MaxListLen == 5
MaxChunk == 3
MaxDepth == 2
MaxEntries == 2
MaxKeyLen == 1
MaxPathLen == 3
MaxTextLen == 4
MaxBytesLen == 3

(***************************************************************************)
(* State of the retry wrapper (utils.py, retry).                           *)
(***************************************************************************)
VARIABLES
    cfg,             \* the decorator's arguments: max_attempts, delay, backoff, exceptions
    pc,              \* position of the current wrapper call
    attempt,         \* the loop variable of `for attempt in range(max_attempts)`
    current_delay,   \* the wrapper's local current_delay
    last_exception,  \* the wrapper's local last_exception
    trace,           \* what each invocation of func did in the current call
    sleeps,          \* the durations of the time.sleep calls of the current call
    outcome,         \* what the current call gave its caller
    calls,           \* number of wrapper calls started
    prev             \* summary of the previous completed call

retryVars == <<cfg, pc, attempt, current_delay, last_exception, trace, sleeps,
               outcome, calls, prev>>

(***************************************************************************)
(* The last call of each pure helper (utils.py): its arguments and what it *)
(* gave back.                                                              *)
(***************************************************************************)
VARIABLES
    chunk,           \* chunk_list: [called, lst, size, res]
    lookup,          \* get_nested_value: [called, d, path, default, sep, res]
    flat,            \* flatten_dict: [called, d, sep, res]
    decoded          \* safe_json_loads: [called, arg, default, res]

helperVars == <<chunk, lookup, flat, decoded>>

(***************************************************************************)
(* The last invocation of lambda_handler (lambda_function.py).             *)
(***************************************************************************)
VARIABLES
    handled          \* [invoked, event, res, log]

handlerVars == <<handled>>

(***************************************************************************)
(* The process-wide logger registry of the logging module, as setup_logger *)
(* uses it.                                                                *)
(***************************************************************************)
VARIABLES
    registry,        \* logger name -> [created, level, handlers]
    emitted          \* the last message logged: [logged, name, level, own, lines]

loggerVars == <<registry, emitted>>

vars == <<retryVars, helperVars, loggerVars, handlerVars>>

(***************************************************************************)
(* Outcomes of a call: a returned value, or a raised exception of class    *)
(* exc whose str() is msg.                                                 *)
(***************************************************************************)
\* F(x) with x evaluated once, like a local variable assigned once and read
\* several times.
Bind(x, F(_)) == CHOOSE y \in {F(v) : v \in {x}} : TRUE

Returned(v) == [ok |-> TRUE, val |-> v, exc |-> "", msg |-> <<>>]
Raised(e, m) == [ok |-> FALSE, val |-> <<>>, exc |-> e, msg |-> m]
NotCalled == [ok |-> FALSE, val |-> <<>>, exc |-> "", msg |-> <<>>]

-----------------------------------------------------------------------------
(***************************************************************************)
(* retry: exception classes and their bases.                               *)
(***************************************************************************)

\* The classes func may raise, and the classes each is an instance of.
FailureKinds == {"ValueError", "TimeoutError", "KeyboardInterrupt"}

Bases(kind) ==
    CASE kind = "ValueError" -> {"ValueError", "Exception", "BaseException"}
      [] kind = "JSONDecodeError" ->
            {"JSONDecodeError", "ValueError", "Exception", "BaseException"}
      [] kind = "UnicodeDecodeError" ->
            {"UnicodeDecodeError", "UnicodeError", "ValueError", "Exception", "BaseException"}
      [] kind = "TimeoutError" -> {"TimeoutError", "OSError", "Exception", "BaseException"}
      [] kind = "KeyboardInterrupt" -> {"KeyboardInterrupt", "BaseException"}
      [] OTHER -> {kind, "Exception", "BaseException"}

\* The tuples the model passes as `exceptions`; (Exception,) is the default.
ExceptionTuples == SUBSET {"Exception", "ValueError"}

NoException == [kind |-> "None", call |-> 0, n |-> 0]

\* A mutant of Retryable: a bare except catches every failure.
RetryableBareExcept(kind, exceptions) == TRUE

\* `except exceptions as e` catches an instance of any listed class.
Retryable(kind, exceptions) == Bases(kind) \cap exceptions # {}

\* A mutant of ShouldSleep: sleeps after the final failed attempt too.
ShouldSleepAlways(a, max_attempts) == a < max_attempts

\* `if attempt < max_attempts - 1`
ShouldSleep(a, max_attempts) == a < max_attempts - 1

\* A mutant of NextDelay: additive instead of geometric growth.
NextDelayAdditive(d, backoff) == d + backoff

\* `current_delay *= backoff`
NextDelay(d, backoff) == d * backoff

RECURSIVE Pow(_, _)
Pow(b, e) == IF e = 0 THEN 1 ELSE b * Pow(b, e - 1)

Configs ==
    [max_attempts : 0..MaxAttempts,
     delay : {1, 2},
     backoff : {1, 2, 3},
     exceptions : ExceptionTuples]

NoCall == [how |-> "none", failures |-> 0, final_delay |-> 0]

RetryInit ==
    /\ cfg \in Configs
    /\ pc = "idle"
    /\ attempt = 0
    /\ current_delay = 0
    /\ last_exception = NoException
    /\ trace = <<>>
    /\ sleeps = <<>>
    /\ outcome = NoException
    /\ calls = 0
    /\ prev = NoCall

\* The summary kept of a call when the next one starts.
Summary ==
    IF calls = 0 THEN NoCall
    ELSE [how |-> pc,
          failures |-> Cardinality({i \in 1..Len(trace) : trace[i].kind # "return"}),
          final_delay |-> current_delay]

\* A mutant of WrapperEntry: current_delay lives in the closure and is not
\* reset when a call starts.
WrapperEntryShared ==
    /\ pc \in {"idle", "returned", "raised"}
    /\ calls < MaxCalls
    /\ prev' = Summary
    /\ calls' = calls + 1
    /\ current_delay' = IF calls = 0 THEN cfg.delay ELSE current_delay
    /\ last_exception' = NoException
    /\ attempt' = 0
    /\ trace' = <<>>
    /\ sleeps' = <<>>
    /\ outcome' = NoException
    /\ pc' = "loop"
    /\ UNCHANGED cfg

\* wrapper is called: current_delay = delay; last_exception = None; the loop starts.
WrapperEntry ==
    /\ pc \in {"idle", "returned", "raised"}
    /\ calls < MaxCalls
    /\ prev' = Summary
    /\ calls' = calls + 1
    /\ current_delay' = cfg.delay
    /\ last_exception' = NoException
    /\ attempt' = 0
    /\ trace' = <<>>
    /\ sleeps' = <<>>
    /\ outcome' = NoException
    /\ pc' = "loop"
    /\ UNCHANGED cfg

\* One iteration of the loop in which func returns: `return func(*args, **kwargs)`.
AttemptReturns ==
    /\ pc = "loop"
    /\ attempt < cfg.max_attempts
    /\ LET r == [kind |-> "return", call |-> calls, n |-> Len(trace) + 1]
       IN /\ trace' = Append(trace, r)
          /\ outcome' = r
    /\ pc' = "returned"
    /\ UNCHANGED <<cfg, attempt, current_delay, last_exception, sleeps, calls, prev>>

\* One iteration of the loop in which func raises an exception of class kind.
AttemptRaises(kind) ==
    /\ pc = "loop"
    /\ attempt < cfg.max_attempts
    /\ LET e == [kind |-> kind, call |-> calls, n |-> Len(trace) + 1]
       IN /\ trace' = Append(trace, e)
          /\ IF Retryable(kind, cfg.exceptions)
             THEN /\ last_exception' = e
                  /\ IF ShouldSleep(attempt, cfg.max_attempts)
                     THEN /\ sleeps' = Append(sleeps, current_delay)
                          /\ current_delay' = NextDelay(current_delay, cfg.backoff)
                     ELSE UNCHANGED <<sleeps, current_delay>>
                  /\ attempt' = attempt + 1
                  /\ UNCHANGED <<pc, outcome>>
             ELSE /\ pc' = "raised"
                  /\ outcome' = e
                  /\ UNCHANGED <<last_exception, sleeps, current_delay, attempt>>
    /\ UNCHANGED <<cfg, calls, prev>>

\* The loop is over: `raise last_exception` (raise None is a TypeError).
LoopExhausted ==
    /\ pc = "loop"
    /\ attempt >= cfg.max_attempts
    /\ pc' = "raised"
    /\ outcome' = IF last_exception = NoException
                  THEN [kind |-> "TypeError", call |-> calls, n |-> 0]
                  ELSE last_exception
    /\ UNCHANGED <<cfg, attempt, current_delay, last_exception, trace, sleeps, calls, prev>>

NextRetry ==
    \/ WrapperEntry
    \/ AttemptReturns
    \/ \E kind \in FailureKinds : AttemptRaises(kind)
    \/ LoopExhausted

\* The decorator as lambda_function.py applies it, before any call.
RetryIdle ==
    /\ RetryInit
    /\ cfg = [max_attempts |-> 3, delay |-> 1, backoff |-> 2, exceptions |-> {"Exception"}]

-----------------------------------------------------------------------------
(***************************************************************************)
(* chunk_list.                                                             *)
(***************************************************************************)
Min(a, b) == IF a < b THEN a ELSE b
Max(a, b) == IF a > b THEN a ELSE b

\* range(start, stop, step) for step # 0, as the sequence of its values.
PyRange(start, stop, step) ==
    LET count == IF step > 0
                 THEN (IF stop > start THEN (stop - start + step - 1) \div step ELSE 0)
                 ELSE (IF start > stop THEN (start - stop - step - 1) \div (0 - step) ELSE 0)
    IN [k \in 1..count |-> start + (k - 1) * step]

\* seq[lo:hi]: indices are clamped to the sequence, negative ones count from the end.
PySlice(seq, lo, hi) ==
    LET n == Len(seq)
        l == IF lo < 0 THEN Max(lo + n, 0) ELSE Min(lo, n)
        h == IF hi < 0 THEN Max(hi + n, 0) ELSE Min(hi, n)
    IN IF h <= l THEN <<>> ELSE SubSeq(seq, l + 1, h)

\* A mutant of ChunkStop: the slice stops one item early.
ChunkStopShort(i, chunk_size) == i + chunk_size - 1

\* The stop index of lst[i:i + chunk_size].
ChunkStop(i, chunk_size) == i + chunk_size

\* "range() arg 3 must not be zero", the message of the ValueError of range(a, b, 0).
RangeStepMsg ==
    <<"r", "a", "n", "g", "e", "(", ")", " ", "a", "r", "g", " ", "3", " ", "m", "u", "s", "t",
      " ", "n", "o", "t", " ", "b", "e", " ", "z", "e", "r", "o">>

\* [lst[i:i + chunk_size] for i in range(0, len(lst), chunk_size)]
ChunkList(lst, chunk_size) ==
    IF chunk_size = 0
    THEN Raised("ValueError", RangeStepMsg)
    ELSE LET r == PyRange(0, Len(lst), chunk_size)
         IN Returned([k \in 1..Len(r) |-> PySlice(lst, r[k], ChunkStop(r[k], chunk_size))])

RECURSIVE SeqsUpTo(_, _)
SeqsUpTo(S, n) ==
    IF n = 0 THEN {<<>>}
    ELSE LET shorter == SeqsUpTo(S, n - 1)
         IN shorter \cup {Append(q, x) : q \in shorter, x \in S}

ListItems == {1, 2}
Lists == SeqsUpTo(ListItems, MaxListLen)
ChunkSizes == (0 - 1)..MaxChunk

-----------------------------------------------------------------------------
(***************************************************************************)
(* Python values, str and dict operations.                                 *)
(***************************************************************************)
PyNone == [t |-> "none", none |-> 0]
PyInt(i) == [t |-> "int", i |-> i]
PyStr(chars) == [t |-> "str", s |-> chars]
PyList(items) == [t |-> "list", items |-> items]
PyDict(pairs) == [t |-> "dict", pairs |-> pairs]
PyBytes(bs) == [t |-> "bytes", bs |-> bs]
PyBool(b) == [t |-> "bool", b |-> b]

\* type(x).__name__
TypeName(t) ==
    CASE t = "none" -> <<"N", "o", "n", "e", "T", "y", "p", "e">>
      [] t = "int" -> <<"i", "n", "t">>
      [] t = "str" -> <<"s", "t", "r">>
      [] t = "list" -> <<"l", "i", "s", "t">>
      [] t = "dict" -> <<"d", "i", "c", "t">>
      [] t = "bytes" -> <<"b", "y", "t", "e", "s">>
      [] t = "bool" -> <<"b", "o", "o", "l">>

\* isinstance(x, dict)
IsDict(x) == x.t = "dict"

\* `key in d` and d[key] on the pairs of a dict.
HasKey(pairs, key) == \E i \in 1..Len(pairs) : pairs[i][1] = key
GetItem(pairs, key) == pairs[CHOOSE i \in 1..Len(pairs) : pairs[i][1] = key][2]

\* d[key] = value: an existing key keeps its place and takes the new value.
SetItem(pairs, key, value) ==
    IF HasKey(pairs, key)
    THEN [i \in 1..Len(pairs) |-> IF pairs[i][1] = key THEN <<key, value>> ELSE pairs[i]]
    ELSE Append(pairs, <<key, value>>)

\* dict(items)
RECURSIVE DictFromItems(_)
DictFromItems(items) ==
    IF items = <<>> THEN <<>>
    ELSE LET n == Len(items)
         IN SetItem(DictFromItems(SubSeq(items, 1, n - 1)), items[n][1], items[n][2])

\* The least index >= from at which sep occurs in str, or 0.
FindFrom(str, sep, from) ==
    LET hits == {i \in from..(Len(str) - Len(sep) + 1) : SubSeq(str, i, i + Len(sep) - 1) = sep}
    IN IF hits = {} THEN 0 ELSE CHOOSE i \in hits : \A j \in hits : i <= j

\* str.split(sep) for a non-empty sep.
RECURSIVE SplitNonEmpty(_, _)
SplitNonEmpty(str, sep) ==
    LET at == FindFrom(str, sep, 1)
    IN IF at = 0 THEN <<str>>
       ELSE <<SubSeq(str, 1, at - 1)>>
            \o SplitNonEmpty(SubSeq(str, at + Len(sep), Len(str)), sep)

\* "empty separator", the message of the ValueError of str.split("").
EmptySeparatorMsg ==
    <<"e", "m", "p", "t", "y", " ", "s", "e", "p", "a", "r", "a", "t", "o", "r">>

\* str.split(sep): an empty separator raises ValueError.
Split(str, sep) ==
    IF sep = <<>> THEN Raised("ValueError", EmptySeparatorMsg)
    ELSE Returned(SplitNonEmpty(str, sep))

-----------------------------------------------------------------------------
(***************************************************************************)
(* get_nested_value and flatten_dict.                                      *)
(***************************************************************************)

\* The loop `for key in keys` of get_nested_value from the value result.
RECURSIVE Walk(_, _, _)
Walk(result, keys, default) ==
    IF keys = <<>> THEN result
    ELSE IF IsDict(result) /\ HasKey(result.pairs, Head(keys))
         THEN Walk(GetItem(result.pairs, Head(keys)), Tail(keys), default)
         ELSE default

\* get_nested_value(d, key_path, default, separator)
GetNestedValue(d, key_path, default, separator) ==
    LET keys == Split(key_path, separator)
    IN IF ~keys.ok THEN keys
       ELSE Returned(Walk(d, keys.val, default))

\* new_key = f"{parent_key}{separator}{k}" if parent_key else k
NewKey(parent_key, separator, k) ==
    IF parent_key # <<>> THEN parent_key \o separator \o k ELSE k

\* The body of flatten_dict on the pairs of d: the dict built from items.
RECURSIVE FlattenPairs(_, _, _)
FlattenItems(pairs, parent_key, separator) ==
    LET ItemsOf(i) ==
            LET new_key == NewKey(parent_key, separator, pairs[i][1])
            IN IF IsDict(pairs[i][2])
               THEN FlattenPairs(pairs[i][2].pairs, new_key, separator)
               ELSE << <<new_key, pairs[i][2]>> >>
        Upto[i \in 0..Len(pairs)] == IF i = 0 THEN <<>> ELSE Upto[i - 1] \o ItemsOf(i)
    IN Upto[Len(pairs)]
FlattenPairs(pairs, parent_key, separator) ==
    DictFromItems(FlattenItems(pairs, parent_key, separator))

\* str(e) of the AttributeError of x.attr on a value of type t without it.
NoAttributeMsg(t, attr) ==
    <<"'">> \o TypeName(t) \o
    <<"'", " ", "o", "b", "j", "e", "c", "t", " ", "h", "a", "s", " ", "n", "o", " ",
      "a", "t", "t", "r", "i", "b", "u", "t", "e", " ", "'">> \o attr \o <<"'">>

ItemsAttr == <<"i", "t", "e", "m", "s">>

\* flatten_dict(d, parent_key, separator): d.items() of a non-dict raises.
FlattenDict(d, parent_key, separator) ==
    IF ~IsDict(d) THEN Raised("AttributeError", NoAttributeMsg(d.t, ItemsAttr))
    ELSE Returned(PyDict(FlattenPairs(d.pairs, parent_key, separator)))

Chars == {"a", "."}
Keys == SeqsUpTo(Chars, MaxKeyLen)
Paths == SeqsUpTo(Chars, MaxPathLen)
Separators == {<<>>, <<".">>, <<"a">>}
LeafValues == {PyInt(1), PyInt(2)}

\* The dicts with at most MaxEntries keys whose values are taken from Values.
DictsOver(Values) ==
    {PyDict(pairs) : pairs \in
        {q \in SeqsUpTo(Keys \X Values, MaxEntries) :
            \A i, j \in 1..Len(q) : i # j => q[i][1] # q[j][1]}}

RECURSIVE DictsOfDepth(_)
DictsOfDepth(depth) ==
    IF depth <= 1 THEN DictsOver(LeafValues)
    ELSE DictsOver(LeafValues \cup DictsOfDepth(depth - 1))

Dicts == DictsOfDepth(MaxDepth)

-----------------------------------------------------------------------------
(***************************************************************************)
(* json.loads and json.dumps, on the characters the model uses: a space is *)
(* the only whitespace, numbers are unsigned decimal integers, and of the  *)
(* string escapes only \" \\ \/ \n \r \t occur.                            *)
(***************************************************************************)

\* isinstance(e, classes) for an exception of class kind.
IsInstance(kind, classes) == Bases(kind) \cap classes # {}

Digits == <<"0", "1", "2", "3", "4", "5", "6", "7", "8", "9">>
DigitChars == {Digits[k] : k \in 1..10}
DigitVal(c) == (CHOOSE k \in 1..10 : Digits[k] = c) - 1

\* str(n) for an int n.
RECURSIVE IntToStr(_)
IntToStr(n) ==
    IF n < 0 THEN <<"-">> \o IntToStr(0 - n)
    ELSE IF n < 10 THEN <<Digits[n + 1]>>
    ELSE IntToStr(n \div 10) \o <<Digits[(n % 10) + 1]>>

NullText == <<"n", "u", "l", "l">>
TrueText == <<"t", "r", "u", "e">>
FalseText == <<"f", "a", "l", "s", "e">>

ParseFail == [ok |-> FALSE, val |-> PyNone, next |-> 0]
Parsed(v, n) == [ok |-> TRUE, val |-> v, next |-> n]

\* s[i:i + len(lit)] == lit
StartsWith(s, i, lit) ==
    /\ i + Len(lit) - 1 <= Len(s)
    /\ SubSeq(s, i, i + Len(lit) - 1) = lit

\* The index after the whitespace that starts at i.
RECURSIVE SkipWs(_, _)
SkipWs(s, i) == IF i <= Len(s) /\ s[i] = " " THEN SkipWs(s, i + 1) ELSE i

\* The character an escape letter stands for.
Unescape(c) ==
    CASE c = "n" -> "\n"
      [] c = "r" -> "\r"
      [] c = "t" -> "\t"
      [] OTHER -> c

\* A string from the character after its opening quote.
RECURSIVE ScanString(_, _, _)
ScanString(s, i, acc) ==
    IF i > Len(s) THEN ParseFail
    ELSE IF s[i] = "\"" THEN Parsed(PyStr(acc), i + 1)
    ELSE IF s[i] \in {"\n", "\r", "\t"} THEN ParseFail
    ELSE IF s[i] = "\\"
         THEN IF i + 1 <= Len(s) /\ s[i + 1] \in {"\"", "\\", "/", "n", "r", "t"}
              THEN ScanString(s, i + 2, Append(acc, Unescape(s[i + 1])))
              ELSE ParseFail
    ELSE ScanString(s, i + 1, Append(acc, s[i]))

\* An integer: 0, or a run of digits that does not start with 0.
RECURSIVE ScanDigits(_, _, _)
ScanDigits(s, i, n) ==
    IF i <= Len(s) /\ s[i] \in DigitChars
    THEN ScanDigits(s, i + 1, 10 * n + DigitVal(s[i]))
    ELSE Parsed(PyInt(n), i)

ScanInt(s, i) == IF s[i] = "0" THEN Parsed(PyInt(0), i + 1) ELSE ScanDigits(s, i, 0)

\* scan_once: the value that starts at index i.
RECURSIVE ParseValue(_, _), ArrayItems(_, _, _), ObjectMembers(_, _, _)

\* JSONObject after a member: index j follows it and pairs holds the members so far.
MembersTail(s, j, pairs) ==
    IF j > Len(s) THEN ParseFail
    ELSE IF s[j] = "}" THEN Parsed(PyDict(DictFromItems(pairs)), j + 1)
    ELSE IF s[j] = ","
         THEN Bind(SkipWs(s, j + 1), LAMBDA q :
                  IF q > Len(s) \/ s[q] # "\"" THEN ParseFail
                  ELSE ObjectMembers(s, q + 1, pairs))
    ELSE ParseFail

ParseValue(s, i) ==
    IF i > Len(s) THEN ParseFail
    ELSE IF s[i] = "\"" THEN ScanString(s, i + 1, <<>>)
    ELSE IF s[i] = "{"
         THEN Bind(SkipWs(s, i + 1), LAMBDA j :
                  IF j > Len(s) THEN ParseFail
                  ELSE IF s[j] = "}" THEN Parsed(PyDict(<<>>), j + 1)
                  ELSE IF s[j] # "\"" THEN ParseFail
                  ELSE ObjectMembers(s, j + 1, <<>>))
    ELSE IF s[i] = "["
         THEN Bind(SkipWs(s, i + 1), LAMBDA j :
                  IF j <= Len(s) /\ s[j] = "]" THEN Parsed(PyList(<<>>), j + 1)
                  ELSE ArrayItems(s, j, <<>>))
    ELSE IF StartsWith(s, i, NullText) THEN Parsed(PyNone, i + 4)
    ELSE IF StartsWith(s, i, TrueText) THEN Parsed(PyBool(TRUE), i + 4)
    ELSE IF StartsWith(s, i, FalseText) THEN Parsed(PyBool(FALSE), i + 5)
    ELSE IF s[i] \in DigitChars THEN ScanInt(s, i)
    ELSE ParseFail

\* JSONArray: the items from index i, after those of acc.
ArrayItems(s, i, acc) ==
    Bind(ParseValue(s, i), LAMBDA v :
        IF ~v.ok THEN ParseFail
        ELSE Bind(SkipWs(s, v.next), LAMBDA j :
                 IF j > Len(s) THEN ParseFail
                 ELSE IF s[j] = "]" THEN Parsed(PyList(Append(acc, v.val)), j + 1)
                 ELSE IF s[j] = "," THEN ArrayItems(s, SkipWs(s, j + 1), Append(acc, v.val))
                 ELSE ParseFail))

\* JSONObject: the members from the character after a key's opening quote.
ObjectMembers(s, i, acc) ==
    Bind(ScanString(s, i, <<>>), LAMBDA k :
        IF ~k.ok THEN ParseFail
        ELSE Bind(SkipWs(s, k.next), LAMBDA c :
                 IF c > Len(s) \/ s[c] # ":" THEN ParseFail
                 ELSE Bind(ParseValue(s, SkipWs(s, c + 1)), LAMBDA v :
                          IF ~v.ok THEN ParseFail
                          ELSE Bind(<<SkipWs(s, v.next), Append(acc, <<k.val.s, v.val>>)>>,
                                    LAMBDA jp :
                                   MembersTail(s, jp[1], jp[2])))))

\* JSONDecoder.decode: one value with whitespace around it and nothing else.
\* The message of a JSONDecodeError is left out: the code never reads it.
DecodeText(s) ==
    Bind(ParseValue(s, SkipWs(s, 1)), LAMBDA v :
        IF v.ok /\ SkipWs(s, v.next) = Len(s) + 1
        THEN Returned(v.val)
        ELSE Raised("JSONDecodeError", <<>>))

\* The byte 0xFF, which no UTF-8 text contains.
InvalidByte == "xFF"

\* json.loads(x): bytes are decoded as UTF-8 first, and anything that is
\* neither str nor bytes is a TypeError.
JsonLoads(x) ==
    IF x.t = "str" THEN DecodeText(x.s)
    ELSE IF x.t = "bytes"
         THEN IF \E i \in 1..Len(x.bs) : x.bs[i] = InvalidByte
              THEN Raised("UnicodeDecodeError", <<>>)
              ELSE DecodeText(x.bs)
    ELSE Raised("TypeError", <<>>)

\* `except (json.JSONDecodeError, TypeError)`
LoadsCaught == {"JSONDecodeError", "TypeError"}

\* safe_json_loads(json_string, default)
SafeJsonLoads(json_string, default) ==
    Bind(JsonLoads(json_string), LAMBDA r :
        IF r.ok THEN r
        ELSE IF IsInstance(r.exc, LoadsCaught) THEN Returned(default)
        ELSE r)

\* The body of a JSON string: quotes, backslashes and control characters escaped.
RECURSIVE EscapeChars(_)
EscapeChars(chars) ==
    IF chars = <<>> THEN <<>>
    ELSE LET c == Head(chars)
             e == CASE c = "\"" -> <<"\\", "\"">>
                    [] c = "\\" -> <<"\\", "\\">>
                    [] c = "\n" -> <<"\\", "n">>
                    [] c = "\r" -> <<"\\", "r">>
                    [] c = "\t" -> <<"\\", "t">>
                    [] OTHER -> <<c>>
         IN e \o EscapeChars(Tail(chars))

Quoted(chars) == <<"\"">> \o EscapeChars(chars) \o <<"\"">>

\* ", ".join(parts)
RECURSIVE JoinComma(_)
JoinComma(parts) ==
    IF parts = <<>> THEN <<>>
    ELSE IF Len(parts) = 1 THEN parts[1]
    ELSE parts[1] \o <<",", " ">> \o JoinComma(Tail(parts))

\* json.dumps(x, default=str): bytes are not serializable and go through str().
RECURSIVE Encode(_)
Encode(x) ==
    CASE x.t = "none" -> NullText
      [] x.t = "bool" -> IF x.b THEN TrueText ELSE FalseText
      [] x.t = "int" -> IntToStr(x.i)
      [] x.t = "str" -> Quoted(x.s)
      [] x.t = "bytes" -> Quoted(<<"b", "'">> \o x.bs \o <<"'">>)
      [] x.t = "list" -> <<"[">> \o JoinComma([k \in 1..Len(x.items) |-> Encode(x.items[k])])
                         \o <<"]">>
      [] x.t = "dict" -> <<"{">> \o JoinComma([k \in 1..Len(x.pairs) |->
                             Quoted(x.pairs[k][1]) \o <<":", " ">> \o Encode(x.pairs[k][2])])
                         \o <<"}">>

\* json.dumps never fails on the values of the model: keys are str and no
\* value contains itself.
JsonDumps(x) == Returned(PyStr(Encode(x)))

\* `except (TypeError, ValueError)`
DumpsCaught == {"TypeError", "ValueError"}

\* safe_json_dumps(obj, default)
SafeJsonDumps(obj, default) ==
    Bind(JsonDumps(obj), LAMBDA r :
        IF r.ok THEN r
        ELSE IF IsInstance(r.exc, DumpsCaught) THEN Returned(PyStr(default))
        ELSE r)

JsonChars == {"[", "]", "1", ",", " "}
Texts == SeqsUpTo(JsonChars, MaxTextLen)
ByteTexts == SeqsUpTo(JsonChars \cup {InvalidByte}, MaxBytesLen)
LoadInputs ==
    {PyNone, PyInt(5)} \cup {PyStr(x) : x \in Texts} \cup {PyBytes(x) : x \in ByteTexts}
LoadDefaults == {PyDict(<<>>), PyList(<<>>)}

HelperIdle ==
    /\ chunk = [called |-> FALSE, lst |-> <<>>, size |-> 1, res |-> NotCalled]
    /\ lookup = [called |-> FALSE, d |-> PyDict(<<>>), path |-> <<>>, default |-> PyNone,
                 sep |-> <<".">>, res |-> NotCalled]
    /\ flat = [called |-> FALSE, d |-> PyDict(<<>>), sep |-> <<".">>, res |-> NotCalled]
    /\ decoded = [called |-> FALSE, arg |-> PyNone, default |-> PyNone, res |-> NotCalled]

\* No helper call is in progress: the code is single-threaded.
NoHelperCall == ~chunk.called /\ ~lookup.called /\ ~flat.called /\ ~decoded.called

\* A call of chunk_list.
ChunkListCall ==
    /\ NoHelperCall
    /\ \E lst \in Lists, size \in ChunkSizes :
          chunk' = [called |-> TRUE, lst |-> lst, size |-> size, res |-> ChunkList(lst, size)]
    /\ UNCHANGED <<lookup, flat, decoded>>

\* A call of get_nested_value.
GetNestedValueCall ==
    /\ NoHelperCall
    /\ \E d \in Dicts, path \in Paths, default \in {PyNone, PyInt(2)}, sep \in Separators :
          lookup' = [called |-> TRUE, d |-> d, path |-> path, default |-> default,
                     sep |-> sep, res |-> GetNestedValue(d, path, default, sep)]
    /\ UNCHANGED <<chunk, flat, decoded>>

\* A call of flatten_dict, parent_key left to its default "".
FlattenDictCall ==
    /\ NoHelperCall
    /\ \E d \in Dicts, sep \in Separators :
          flat' = [called |-> TRUE, d |-> d, sep |-> sep, res |-> FlattenDict(d, <<>>, sep)]
    /\ UNCHANGED <<chunk, lookup, decoded>>

\* A call of safe_json_loads.
SafeJsonLoadsCall ==
    /\ NoHelperCall
    /\ \E arg \in LoadInputs, default \in LoadDefaults :
          decoded' = [called |-> TRUE, arg |-> arg, default |-> default,
                      res |-> SafeJsonLoads(arg, default)]
    /\ UNCHANGED <<chunk, lookup, flat>>

\* The caller has used the result; the helpers keep no state between calls.
HelperReturn ==
    /\ ~NoHelperCall
    /\ chunk' = [called |-> FALSE, lst |-> <<>>, size |-> 1, res |-> NotCalled]
    /\ lookup' = [called |-> FALSE, d |-> PyDict(<<>>), path |-> <<>>, default |-> PyNone,
                  sep |-> <<".">>, res |-> NotCalled]
    /\ flat' = [called |-> FALSE, d |-> PyDict(<<>>), sep |-> <<".">>, res |-> NotCalled]
    /\ decoded' = [called |-> FALSE, arg |-> PyNone, default |-> PyNone, res |-> NotCalled]

-----------------------------------------------------------------------------
(***************************************************************************)
(* setup_logger and the loggers it returns.                                *)
(***************************************************************************)

\* Logger names; "" names the root logger, a dot separates parent from child.
LoggerNames == {<<>>, <<"a">>, <<"a", ".", "b">>, <<"b">>}

\* logging.DEBUG and logging.WARNING.
Levels == {10, 30}

DefaultFormat == "%(asctime)s - %(name)s - %(levelname)s - %(message)s"
FormatStrings == {"None", "%(message)s"}

\* A logger that has never been requested.
NoLogger == [created |-> FALSE, level |-> 0, handlers |-> <<>>]

LoggerIdle ==
    /\ registry = [n \in LoggerNames |-> NoLogger]
    /\ emitted = [logged |-> FALSE, name |-> <<>>, level |-> 0, threshold |-> 0, own |-> 0, lines |-> 0]

\* A mutant of NeedsHandler: a handler is attached on every call.
NeedsHandlerAlways(handlers) == TRUE

\* `if not logger.handlers`
NeedsHandler(handlers) == handlers = <<>>

\* setup_logger(name, level, format_string)
SetupLogger(name, level, format_string) ==
    LET logger == registry[name]
        fmt == IF format_string = "None" THEN DefaultFormat ELSE format_string
        handler == [level |-> level, formatter |-> fmt]
    IN /\ registry' = [registry EXCEPT ![name] =
              [created |-> TRUE,
               level |-> level,
               handlers |-> IF NeedsHandler(logger.handlers)
                            THEN Append(logger.handlers, handler)
                            ELSE logger.handlers]]
       /\ UNCHANGED emitted

\* name's logger followed by the loggers a record propagates to: the created
\* loggers whose name followed by a dot begins name, and the root logger.
IsAncestorName(p, n) ==
    /\ p # n
    /\ \/ p = <<>>
       \/ /\ Len(p) < Len(n)
          /\ SubSeq(n, 1, Len(p)) = p
          /\ n[Len(p) + 1] = "."

PropagationChain(name) ==
    {name} \cup {p \in LoggerNames : IsAncestorName(p, name) /\ registry[p].created}

\* The number of handlers of logger n that emit a record of this level.
HandlerLines(n, level) ==
    Cardinality({i \in 1..Len(registry[n].handlers) : level >= registry[n].handlers[i].level})

RECURSIVE SumLines(_, _)
SumLines(S, level) ==
    IF S = {} THEN 0
    ELSE LET n == CHOOSE x \in S : TRUE
         IN HandlerLines(n, level) + SumLines(S \ {n}, level)

\* logger.log(level, msg) on a logger setup_logger returned: the record is
\* dropped below the logger's level, else handled by the logger's handlers and
\* those of its ancestors (propagate is left True).
LogMessage(name, level) ==
    /\ registry[name].created
    /\ emitted' =
          IF level >= registry[name].level
          THEN [logged |-> TRUE, name |-> name, level |-> level,
                threshold |-> registry[name].level,
                own |-> HandlerLines(name, level),
                lines |-> SumLines(PropagationChain(name), level)]
          ELSE [logged |-> TRUE, name |-> name, level |-> level,
                threshold |-> registry[name].level, own |-> 0, lines |-> 0]
    /\ UNCHANGED registry

NextLogger ==
    \/ \E name \in LoggerNames, level \in Levels, f \in FormatStrings :
          SetupLogger(name, level, f) /\ UNCHANGED <<retryVars, helperVars, handlerVars>>
    \/ \E name \in LoggerNames, level \in Levels :
          LogMessage(name, level) /\ UNCHANGED <<retryVars, helperVars, handlerVars>>

-----------------------------------------------------------------------------
(***************************************************************************)
(* lambda_handler and process_event_data.                                  *)
(***************************************************************************)

\* The string literals of lambda_function.py and helpers.py.
BodyKey ==
    <<"b", "o", "d", "y">>

EmptyObjectText ==
    <<"{", "}">>

UserIdPath ==
    <<"u", "s", "e", "r", ".", "i", "d">>

Anonymous ==
    <<"a", "n", "o", "n", "y", "m", "o", "u", "s">>

RequestActionPath ==
    <<"r", "e", "q", "u", "e", "s", "t", ".", "a", "c", "t", "i", "o", "n">>

Unknown ==
    <<"u", "n", "k", "n", "o", "w", "n">>

UserIdKey ==
    <<"u", "s", "e", "r", "_", "i", "d">>

ActionKey ==
    <<"a", "c", "t", "i", "o", "n">>

RawBodyKey ==
    <<"r", "a", "w", "_", "b", "o", "d", "y">>

StatusCodeField ==
    <<"s", "t", "a", "t", "u", "s", "_", "c", "o", "d", "e">>

MessageField ==
    <<"m", "e", "s", "s", "a", "g", "e">>

DataField ==
    <<"d", "a", "t", "a">>

FrameworkVersionKey ==
    <<"f", "r", "a", "m", "e", "w", "o", "r", "k", "_", "v", "e", "r", "s",
      "i", "o", "n">>

ProcessedMessage ==
    <<"R", "e", "q", "u", "e", "s", "t", " ", "p", "r", "o", "c", "e", "s",
      "s", "e", "d", " ", "s", "u", "c", "c", "e", "s", "s", "f", "u", "l",
      "l", "y">>

StatusCodeKey ==
    <<"s", "t", "a", "t", "u", "s", "C", "o", "d", "e">>

HeadersKey ==
    <<"h", "e", "a", "d", "e", "r", "s">>

ContentTypeKey ==
    <<"C", "o", "n", "t", "e", "n", "t", "-", "T", "y", "p", "e">>

ApplicationJson ==
    <<"a", "p", "p", "l", "i", "c", "a", "t", "i", "o", "n", "/", "j", "s",
      "o", "n">>

ErrorKey ==
    <<"e", "r", "r", "o", "r">>

MessageKey ==
    <<"m", "e", "s", "s", "a", "g", "e">>

InternalServerError ==
    <<"I", "n", "t", "e", "r", "n", "a", "l", " ", "s", "e", "r", "v", "e",
      "r", " ", "e", "r", "r", "o", "r">>

GetAttr ==
    <<"g", "e", "t">>

\* __version__ of version.py.
FrameworkVersion ==
    <<"0", ".", "3", ".", "1", "1">>

DefaultSeparator == <<".">>

StatusOk == 200
StatusError == 500

\* x.get(key, default): only a dict has the method.
DictGet(x, key, default) ==
    IF ~IsDict(x) THEN Raised("AttributeError", NoAttributeMsg(x.t, GetAttr))
    ELSE Returned(IF HasKey(x.pairs, key) THEN GetItem(x.pairs, key) ELSE default)

\* The end of process_event_data, once body has its final value.
ProcessBody(body) ==
    Bind(<<GetNestedValue(body, UserIdPath, PyStr(Anonymous), DefaultSeparator),
           GetNestedValue(body, RequestActionPath, PyStr(Unknown), DefaultSeparator),
           FlattenDict(body, <<>>, DefaultSeparator)>>,
         LAMBDA r :
            IF ~r[1].ok THEN r[1]
            ELSE IF ~r[2].ok THEN r[2]
            ELSE IF ~r[3].ok THEN r[3]
            ELSE Returned(PyDict(<< <<UserIdKey, r[1].val>>,
                                    <<ActionKey, r[2].val>>,
                                    <<RawBodyKey, body>> >>)))

\* process_event_data(event)
ProcessEventData(event) ==
    Bind(DictGet(event, BodyKey, PyStr(EmptyObjectText)), LAMBDA got :
        IF ~got.ok THEN got
        ELSE Bind(IF got.val.t = "str" THEN SafeJsonLoads(got.val, PyDict(<<>>)) ELSE got,
                  LAMBDA loaded : IF ~loaded.ok THEN loaded ELSE ProcessBody(loaded.val)))

\* The response envelope of lambda_handler (and of helpers.format_response).
Envelope(status_code, body) ==
    PyDict(<< <<StatusCodeKey, PyInt(status_code)>>,
              <<HeadersKey, PyDict(<< <<ContentTypeKey, PyStr(ApplicationJson)>> >>)>>,
              <<BodyKey, body>> >>)

\* LambdaResponse(...).model_dump(): the dict of the three fields, whose
\* validation accepts these values.
ResponseModel(processed) ==
    PyDict(<< <<StatusCodeField, PyInt(StatusOk)>>,
              <<MessageField, PyStr(ProcessedMessage)>>,
              <<DataField,
                PyDict(<< <<UserIdKey, GetItem(processed.pairs, UserIdKey)>>,
                          <<ActionKey, GetItem(processed.pairs, ActionKey)>>,
                          <<FrameworkVersionKey, PyStr(FrameworkVersion)>> >>)>> >>)

\* The try block of lambda_handler.
TryBlock(event) ==
    Bind(ProcessEventData(event), LAMBDA processed :
        IF ~processed.ok THEN processed
        ELSE Bind(SafeJsonDumps(ResponseModel(processed.val), EmptyObjectText), LAMBDA body :
                 IF ~body.ok THEN body
                 ELSE Returned(Envelope(StatusOk, body.val))))

\* The except block of lambda_handler for a failure whose str() is msg.
ExceptBlock(msg) ==
    Bind(SafeJsonDumps(PyDict(<< <<ErrorKey, PyStr(msg)>>,
                                 <<MessageKey, PyStr(InternalServerError)>> >>),
                       EmptyObjectText),
         LAMBDA body :
            IF ~body.ok THEN body
            ELSE Returned(Envelope(StatusError, body.val)))

\* A mutant of HandlerCaught: the handler catches ValueError only.
HandlerCaughtNarrow == {"ValueError"}

\* `except Exception as e`
HandlerCaught == {"Exception"}

\* The records lambda_handler and process_event_data hand to the logger, each
\* a level and the fixed beginning of its message: those of a run whose try
\* block ended as tried.
HandlerLog(tried) ==
    LET start == << <<"INFO", "Lambda started">>, <<"INFO", "Event">> >>
    IN IF tried.ok
       THEN start \o << <<"INFO", "Flattened request data">>,
                        <<"INFO", "Processing request for user">>,
                        <<"INFO", "Action">> >>
       ELSE IF IsInstance(tried.exc, HandlerCaught)
            THEN start \o << <<"ERROR", "Error processing request">> >>
       ELSE start

\* lambda_handler(event, context), as [res, log]: what it gives its caller
\* and what it logs.  The event is serialized for the log before the try block.
LambdaHandler(event) ==
    Bind(<<SafeJsonDumps(event, EmptyObjectText), TryBlock(event)>>, LAMBDA r :
        IF ~r[1].ok THEN [res |-> r[1], log |-> << <<"INFO", "Lambda started">> >>]
        ELSE [res |-> IF r[2].ok THEN r[2]
                      ELSE IF IsInstance(r[2].exc, HandlerCaught) THEN ExceptBlock(r[2].msg)
                      ELSE r[2],
              log |-> HandlerLog(r[2])])

\* Bodies of inbound events: mappings with and without the user and request
\* entries, and values that are no mapping.
UserEntries ==
    {<<>>} \cup
    {<< <<<<"u", "s", "e", "r">>, u>> >> :
        u \in {PyInt(5), PyDict(<<>>),
               PyDict(<< <<<<"i", "d">>, PyStr(<<"u", "1">>)>> >>),
               PyDict(<< <<<<"i", "d">>, PyNone>> >>),
               PyDict(<< <<<<"i", "d">>, PyDict(<< <<<<"k">>, PyInt(1)>> >>)>> >>)}}

RequestEntries ==
    {<<>>} \cup
    {<< <<<<"r", "e", "q", "u", "e", "s", "t">>, r>> >> :
        r \in {PyStr(<<"g", "o">>), PyDict(<<>>),
               PyDict(<< <<ActionKey, PyStr(<<"g", "o">>)>> >>),
               PyDict(<< <<ActionKey, PyInt(1)>> >>)}}

BodyValues ==
    {PyDict(u \o r) : u \in UserEntries, r \in RequestEntries} \cup
    {PyNone, PyInt(5), PyBool(TRUE), PyList(<<>>), PyList(<<PyInt(1)>>),
     PyStr(<<"x">>), PyBytes(<<"1">>)}

\* A body as the event carries it: the value itself, its JSON text, or that
\* text cut short by one character.
Bodies ==
    BodyValues \cup
    {PyStr(Encode(v)) : v \in BodyValues} \cup
    {PyStr(SubSeq(Encode(v), 1, Len(Encode(v)) - 1)) : v \in BodyValues}

Events ==
    {PyDict(<<>>), PyNone, PyList(<<>>)} \cup {PyDict(<< <<BodyKey, b>> >>) : b \in Bodies}

HandlerIdle ==
    /\ handled = [invoked |-> FALSE, event |-> PyDict(<<>>), res |-> NotCalled, log |-> <<>>]

\* An invocation of lambda_handler.
LambdaHandlerCall ==
    /\ \E event \in Events :
          \E run \in {LambdaHandler(event)} :
              handled' = [invoked |-> TRUE, event |-> event, res |-> run.res, log |-> run.log]

NextHandler == LambdaHandlerCall /\ UNCHANGED <<retryVars, helperVars, loggerVars>>

-----------------------------------------------------------------------------
(***************************************************************************)
(* Specifications, one per component.                                      *)
(***************************************************************************)
InitRetry == RetryInit /\ HelperIdle /\ LoggerIdle /\ HandlerIdle

SpecRetry == InitRetry /\ [][NextRetry /\ UNCHANGED <<helperVars, loggerVars, handlerVars>>]_vars

InitChunk == RetryIdle /\ HelperIdle /\ LoggerIdle /\ HandlerIdle

NextChunk ==
    \/ ChunkListCall /\ UNCHANGED <<retryVars, loggerVars, handlerVars>>
    \/ HelperReturn /\ UNCHANGED <<retryVars, loggerVars, handlerVars>>

SpecChunk == InitChunk /\ [][NextChunk]_vars

InitDict == RetryIdle /\ HelperIdle /\ LoggerIdle /\ HandlerIdle

NextDict ==
    \/ GetNestedValueCall /\ UNCHANGED <<retryVars, loggerVars, handlerVars>>
    \/ FlattenDictCall /\ UNCHANGED <<retryVars, loggerVars, handlerVars>>
    \/ HelperReturn /\ UNCHANGED <<retryVars, loggerVars, handlerVars>>

SpecDict == InitDict /\ [][NextDict]_vars

InitJson == RetryIdle /\ HelperIdle /\ LoggerIdle /\ HandlerIdle

NextJson ==
    \/ SafeJsonLoadsCall /\ UNCHANGED <<retryVars, loggerVars, handlerVars>>
    \/ HelperReturn /\ UNCHANGED <<retryVars, loggerVars, handlerVars>>

SpecJson == InitJson /\ [][NextJson]_vars

InitHandler == RetryIdle /\ HelperIdle /\ LoggerIdle /\ HandlerIdle

SpecHandler == InitHandler /\ [][NextHandler]_vars

InitLogger == RetryIdle /\ HelperIdle /\ LoggerIdle /\ HandlerIdle

SpecLogger == InitLogger /\ [][NextLogger]_vars

-----------------------------------------------------------------------------
(***************************************************************************)
(* Claims about retry.                                                     *)
(***************************************************************************)

IsFailure(x) == x.kind # "return"
\* The failure's class is one of the configured classes or derives from one.
InRetryableSet(x) == \E c \in cfg.exceptions : c \in Bases(x.kind)
Finished == pc \in {"returned", "raised"}
Failures == {i \in 1..Len(trace) : IsFailure(trace[i])}
AllRetryableFailures ==
    \A i \in 1..Len(trace) :
        IsFailure(trace[i]) /\ InRetryableSet(trace[i])

\* C1: with max_attempts >= 1, a finished call whose every attempt raised a
\* retryable failure invoked func exactly max_attempts times, slept exactly
\* max_attempts - 1 times, and raised the failure of attempt max_attempts;
\* and no call ever sleeps max_attempts times.
C1_RetryExhaustion ==
    cfg.max_attempts >= 1 =>
        /\ Len(sleeps) <= cfg.max_attempts - 1
        /\ (Finished /\ AllRetryableFailures) =>
              /\ pc = "raised"
              /\ Len(trace) = cfg.max_attempts
              /\ Len(sleeps) = cfg.max_attempts - 1
              /\ outcome = trace[cfg.max_attempts]
              /\ outcome.n = cfg.max_attempts

C1_Witness ==
    /\ cfg.max_attempts = 3
    /\ pc = "raised"
    /\ AllRetryableFailures
    /\ Len(trace) = 3
    /\ trace[1].kind # trace[3].kind

\* C2: when func fails retryably k times (k < max_attempts) and then returns,
\* the wrapper returns that attempt's result having slept exactly k times, the
\* i-th sleep (from 0) lasting delay * backoff^i; the returning invocation is
\* the last one of the call and no sleep follows it.
C2_RetrySuccessBackoff ==
    /\ \A i \in 1..Len(sleeps) : sleeps[i] = cfg.delay * Pow(cfg.backoff, i - 1)
    /\ \A i \in 1..Len(trace) :
          trace[i].kind = "return" =>
              /\ i = Len(trace)
              /\ pc = "returned"
              /\ outcome = trace[i]
              /\ Len(sleeps) = i - 1
              /\ i - 1 < cfg.max_attempts
              /\ \A j \in 1..(i - 1) :
                    IsFailure(trace[j]) /\ InRetryableSet(trace[j])

C2_Witness ==
    /\ cfg.max_attempts = 3
    /\ cfg.delay = 1
    /\ cfg.backoff = 2
    /\ pc = "returned"
    /\ Len(trace) = 3
    /\ sleeps = <<1, 2>>

\* C3: a failure whose class is not retryable ends the call at once: it is the
\* last invocation, it is what the caller gets, and the only sleeps of the call
\* are those of the retryable failures before it.
C3_FailFast ==
    \A i \in 1..Len(trace) :
        (IsFailure(trace[i]) /\ ~InRetryableSet(trace[i])) =>
            /\ i = Len(trace)
            /\ pc = "raised"
            /\ outcome = trace[i]
            /\ Len(sleeps) = i - 1
            /\ i <= cfg.max_attempts

C3_Witness ==
    /\ pc = "raised"
    /\ Len(trace) = 2
    /\ InRetryableSet(trace[1])
    /\ ~InRetryableSet(trace[2])
    /\ outcome = trace[2]
    /\ last_exception = trace[1]

\* C10: every call starts with its own loop index 0, its own current_delay
\* equal to the configured delay and no captured failure, whatever the previous
\* call did; its first sleep lasts the configured delay and it never gets more
\* than max_attempts invocations.
C10_PerCallState ==
    /\ (pc = "loop" /\ trace = <<>>) =>
          /\ attempt = 0
          /\ current_delay = cfg.delay
          /\ last_exception = NoException
    /\ Len(sleeps) >= 1 => sleeps[1] = cfg.delay
    /\ Len(trace) <= cfg.max_attempts
    /\ \A i \in 1..Len(trace) : trace[i].call = calls /\ trace[i].n = i
    /\ (pc = "loop") => attempt = Len(trace)

C10_Witness ==
    /\ calls = 2
    /\ prev.how = "raised"
    /\ prev.failures >= 2
    /\ prev.final_delay # cfg.delay
    /\ Len(sleeps) >= 1
    /\ pc = "returned"

-----------------------------------------------------------------------------
(***************************************************************************)
(* Claims about chunk_list.                                                *)
(***************************************************************************)
RECURSIVE Concat(_)
Concat(ss) == IF ss = <<>> THEN <<>> ELSE Head(ss) \o Concat(Tail(ss))

\* C9: for size >= 1, chunk_list returns slices whose concatenation is lst;
\* every slice but the last has exactly size items, the last has between 1 and
\* size items, and the empty list gives no chunk at all.
C9_ChunkPartition ==
    (chunk.called /\ chunk.size >= 1) =>
        /\ chunk.res.ok
        /\ LET out == chunk.res.val
           IN /\ Concat(out) = chunk.lst
              /\ \A k \in 1..Len(out) :
                    /\ Len(out[k]) >= 1
                    /\ Len(out[k]) <= chunk.size
                    /\ k < Len(out) => Len(out[k]) = chunk.size
              /\ (chunk.lst = <<>>) => (out = <<>>)

C9_Witness ==
    /\ chunk.called
    /\ chunk.size = 2
    /\ Len(chunk.lst) = 5
    /\ chunk.res.ok
    /\ Len(chunk.res.val) = 3
    /\ Len(chunk.res.val[3]) = 1

-----------------------------------------------------------------------------
(***************************************************************************)
(* Claims about setup_logger.                                              *)
(***************************************************************************)
SetUpNames == {n \in LoggerNames : registry[n].created}
OneSinkPerName == \A n \in SetUpNames : Len(registry[n].handlers) = 1
\* The message passed the level its logger had when it was logged, and the
\* level of that logger's sink.
Admitted ==
    /\ emitted.logged
    /\ emitted.level >= emitted.threshold
    /\ \A i \in 1..Len(registry[emitted.name].handlers) :
          emitted.level >= registry[emitted.name].handlers[i].level
SetUpAncestors(n) == {p \in SetUpNames : IsAncestorName(p, n)}

\* C5 as stated: every name that has been set up has exactly one sink, and a
\* log message produces one output line (never two).
C5_AsStated ==
    /\ OneSinkPerName
    /\ emitted.logged => emitted.lines <= 1
    /\ Admitted => emitted.lines = 1

\* C5 as amended: every name that has been set up has exactly one sink, and a
\* later call with the same name attaches no other, so the sink of the logger a
\* message is logged on writes it at most once, and exactly once when the
\* message's level is at least the level of that logger and of its sink.  The
\* sink of every set-up ancestor name (a dotted prefix, or the root name "")
\* may write the message once more; with no set-up ancestor the message gives
\* exactly the lines of the logger's own sink.
C5_OneSinkPerName ==
    /\ OneSinkPerName
    /\ emitted.logged =>
          /\ emitted.own <= 1
          /\ emitted.lines >= emitted.own
          /\ emitted.lines <= emitted.own + Cardinality(SetUpAncestors(emitted.name))
          /\ Admitted => emitted.own = 1

C5_Witness ==
    /\ registry[<<"a">>].created
    /\ Len(registry[<<"a">>].handlers) = 1
    /\ registry[<<"a">>].level # registry[<<"a">>].handlers[1].level
    /\ ~registry[<<>>].created
    /\ emitted.logged
    /\ emitted.name = <<"a">>
    /\ emitted.lines = 1

-----------------------------------------------------------------------------
(***************************************************************************)
(* Claims about get_nested_value and flatten_dict.                         *)
(***************************************************************************)

\* Every key of keys is present along the descent from value x and every
\* value met before the last is a mapping.
RECURSIVE PathPresent(_, _)
PathPresent(x, keys) ==
    \/ keys = <<>>
    \/ /\ IsDict(x)
       /\ HasKey(x.pairs, Head(keys))
       /\ PathPresent(GetItem(x.pairs, Head(keys)), Tail(keys))

RECURSIVE ValueAt(_, _)
ValueAt(x, keys) ==
    IF keys = <<>> THEN x ELSE ValueAt(GetItem(x.pairs, Head(keys)), Tail(keys))

\* C6: get_nested_value never raises, whatever the mapping, path, default
\* and separator; it returns the value reached along the keys of the path when
\* all are present, and the default otherwise.
C6_NestedLookup ==
    lookup.called =>
        /\ lookup.res.ok
        /\ LET keys == SplitNonEmpty(lookup.path, lookup.sep)
           IN lookup.res.val = IF PathPresent(lookup.d, keys)
                               THEN ValueAt(lookup.d, keys)
                               ELSE lookup.default

\* The leaves of a mapping: (sequence of keys from the root, value) for every
\* value that is not a mapping.
RECURSIVE LeavesOf(_)
LeavesOf(pairs) ==
    UNION {IF IsDict(pairs[i][2])
           THEN {<< <<pairs[i][1]>> \o l[1], l[2] >> : l \in LeavesOf(pairs[i][2].pairs)}
           ELSE {<< <<pairs[i][1]>>, pairs[i][2] >>} : i \in 1..Len(pairs)}

\* sep.join(path)
RECURSIVE Join(_, _)
Join(path, sep) ==
    IF Len(path) = 1 THEN path[1] ELSE path[1] \o sep \o Join(Tail(path), sep)

\* C7: flatten_dict(d, separator=s) holds exactly one entry per leaf of d,
\* keyed by the s-joined keys from the root to the leaf and holding its value.
C7_FlattenEveryLeaf ==
    flat.called =>
        /\ flat.res.ok
        /\ LET out == flat.res.val.pairs
               leaves == LeavesOf(flat.d.pairs)
           IN /\ Len(out) = Cardinality(leaves)
              /\ \A l \in leaves :
                    /\ HasKey(out, Join(l[1], flat.sep))
                    /\ GetItem(out, Join(l[1], flat.sep)) = l[2]
              /\ \A i \in 1..Len(out) :
                    \E l \in leaves : out[i] = <<Join(l[1], flat.sep), l[2]>>

-----------------------------------------------------------------------------
(***************************************************************************)
(* Claims about safe_json_loads.                                           *)
(***************************************************************************)

\* C8: safe_json_loads never raises, whatever its input (text, None, any other
\* value, bytes that cannot be decoded): it returns the parsed value of
\* well-formed input and the caller's default otherwise.
C8_SafeDecodeNeverRaises ==
    decoded.called =>
        /\ decoded.res.ok
        /\ LET parsed == JsonLoads(decoded.arg)
           IN decoded.res.val = IF parsed.ok THEN parsed.val ELSE decoded.default

-----------------------------------------------------------------------------
(***************************************************************************)
(* Claims about lambda_handler.                                            *)
(***************************************************************************)

\* "'list' object has no attribute 'items'"
ListHasNoItems ==
    <<"'", "l", "i", "s", "t", "'", " ", "o", "b", "j", "e", "c", "t", " ", "h", "a", "s",
      " ", "n", "o", " ", "a", "t", "t", "r", "i", "b", "u", "t", "e", " ", "'", "i", "t",
      "e", "m", "s", "'">>

\* C4: lambda_handler never raises; it returns an envelope whose statusCode
\* is 200 or 500, and whenever processing the event fails the statusCode is
\* 500 and the body decodes to a mapping whose `error` field is the failure's
\* textual description.
C4_HandlerBoundary ==
    handled.invoked =>
        /\ handled.res.ok
        /\ LET env == handled.res.val
               status == GetItem(env.pairs, StatusCodeKey)
               body == JsonLoads(GetItem(env.pairs, BodyKey))
               failure == ProcessEventData(handled.event)
           IN /\ status \in {PyInt(200), PyInt(500)}
              /\ ~failure.ok =>
                    /\ status = PyInt(500)
                    /\ body.ok
                    /\ IsDict(body.val)
                    /\ HasKey(body.val.pairs, ErrorKey)
                    /\ GetItem(body.val.pairs, ErrorKey) = PyStr(failure.msg)

C4_Witness ==
    /\ handled.invoked
    /\ handled.event = PyDict(<< <<BodyKey, PyStr(<<"[", "]">>)>> >>)
    /\ handled.res.ok
    /\ GetItem(handled.res.val.pairs, StatusCodeKey) = PyInt(500)
    /\ LET body == JsonLoads(GetItem(handled.res.val.pairs, BodyKey))
       IN body.ok /\ GetItem(body.val.pairs, ErrorKey) = PyStr(ListHasNoItems)

=============================================================================
